---- MODULE Spec2Model ----
(***************************************************************************)
(* A model of three pieces of the ockam Rust implementation:               *)
(*   - TcpRecvProcessor (ockam_transport_tcp/src/workers/receiver.rs),     *)
(*     the receiving half of a TCP connection worker pair;                 *)
(*   - NodeManager::get_credential_impl and the NodeManagerWorker          *)
(*     get_credential / present_credential request handlers                *)
(*     (ockam_api/src/nodes/service/credentials.rs);                       *)
(*   - the credential exchange and the attribute based access control of   *)
(*     examples/11-attribute-based-authentication-edge-plane.rs.           *)
(***************************************************************************)
EXTENDS Naturals, Sequences, FiniteSets, TLC

(***************************************************************************)
(* Bounds of the model.                                                    *)
(***************************************************************************)
\* Largest number of frames one connection delivers before the stream ends.
MaxFrames == 3
\* Largest number of requests and access control decisions of the node.
MaxRequests == 3

VARIABLES
    \* ---- TcpRecvProcessor and its surroundings ----
    rstate,         \* "new" | "init_failed" | "running" | "ended" | "stopped"
                    \* | "shutdown"
    loopExit,       \* why the loop was left: "none" | "self" | "signal"
    registry,       \* TcpRegistry: the receiver processors registered
    initialized,    \* what initialize returned: "none" (not called) | "ok"
                    \* | "err"
    session_id,     \* self.session_id : <<>> (None) or <<id>> (Some(id))
    streamOpen,     \* the read half still delivers bytes
    awaiting,       \* where the call of process waits: "none" | "read_u16"
                    \* | "read_exact" | "send" | "forward"
    consumed,       \* the frames whose payload read has returned so far
    infoFailed,     \* positions in consumed where to_local_info failed
    forwarded,      \* LocalMessages handed to ctx.forward, in call order
    forwardResults, \* for each of them, whether the router took it
    notifications,  \* messages delivered by ctx.send, in order
    last,           \* what the last call of process read and did
    \* ---- NodeManager and its request handlers ----
    credential,         \* the node identity's credential, an Option
    named_credential,   \* the credential of the identity of cli_state that a
                        \* request can name, an Option
    node_identity,      \* whether the NodeManager has an identity
    authorities,        \* NodeManager.authorities, an Option of a list
    attributes_storage, \* AttributeStore: identifier -> Option of attributes
    lock,               \* the RwLock around the NodeManager
    handlers,           \* the request handlers of NodeManagerWorker
    requests,           \* requests taken so far
    abac                \* the last decision of the access control

recvVars == <<rstate, loopExit, registry, initialized, session_id,
              streamOpen, awaiting, consumed, infoFailed, forwarded,
              forwardResults, notifications, last>>

nodeVars == <<credential, named_credential, node_identity, authorities,
              attributes_storage, lock, handlers,
              requests, abac>>

vars == <<recvVars, nodeVars>>

(***************************************************************************)
(* Addresses of one connection worker pair (struct Addresses).             *)
(***************************************************************************)
sender_address == "tcp_sender"
sender_internal_addr == "tcp_sender_internal"
receiver_address == "tcp_receiver"

ConnectionClosed == "ConnectionClosed"

\* Option<T> as a sequence of at most one element.
None == <<>>
Some(x) == <<x>>

SessionIds == {"session_a", "session_b"}
AppAddrs == {"app"}
Payloads == {"p1", "p2"}

\* The routes a peer puts in a TransportMessage.
OnwardRoutes == {<<>>} \cup {<<a>> : a \in AppAddrs}
ReturnRoutes == {<<"peer">>}

TransportMessages ==
    [onward_route : OnwardRoutes, return_route : ReturnRoutes, payload : Payloads]

(***************************************************************************)
(* What one pass over the read half finds.  hdr: read_u16 returned a       *)
(* length; complete: read_exact filled the buffer; decoded: the result of  *)
(* TransportMessage::decode on the buffer, None when the bytes are not an  *)
(* encoded message.                                                        *)
(***************************************************************************)
StreamFailed == [hdr |-> FALSE, complete |-> FALSE, decoded |-> None]
ShortFrame == [hdr |-> TRUE, complete |-> FALSE, decoded |-> None]
BadFrame == [hdr |-> TRUE, complete |-> TRUE, decoded |-> None]
GoodFrame(m) == [hdr |-> TRUE, complete |-> TRUE, decoded |-> Some(m)]

Frames == {ShortFrame, BadFrame} \cup {GoodFrame(m) : m \in TransportMessages}

IsHeartbeatFrame(rd) ==
    /\ rd.decoded # None
    /\ rd.decoded[1].onward_route = <<>>

IsRoutedFrame(rd) ==
    /\ rd.decoded # None
    /\ rd.decoded[1].onward_route # <<>>

(***************************************************************************)
(* TcpRecvProcessor::process, receiver.rs 101-164.  A call reads one       *)
(* length prefix and at most one payload.  Its outcome: result is what it  *)
(* returns ("true" = Ok(true), "false" = Ok(false), "err" = Err(_)), send  *)
(* the messages it gave to ctx.send, forward the LocalMessages it gave to  *)
(* ctx.forward.  infoOk, sendOk and fwdOk are what to_local_info,          *)
(* ctx.send and ctx.forward answer.                                        *)
(***************************************************************************)
Outcome(result, send, forward) ==
    [result |-> result, send |-> send, forward |-> forward]

\* A slip of on_read_len_error: the notification is sent but the loop is
\* told to go on.
on_read_len_error_continue(sendOk) ==
    Outcome(IF sendOk THEN "true" ELSE "err",
            <<[to |-> sender_internal_addr, msg |-> ConnectionClosed]>>,
            <<>>)

\* read_u16 failed: notify the sender, then stop (receiver.rs 106-120).
on_read_len_error(sendOk) ==
    Outcome(IF sendOk THEN "false" ELSE "err",
            <<[to |-> sender_internal_addr, msg |-> ConnectionClosed]>>,
            <<>>)

\* A slip of on_read_payload_error: the failed read ends the loop at once.
on_read_payload_error_stop == Outcome("false", <<>>, <<>>)

\* A slip of on_read_payload_error: the sender is told of a closed connection.
on_read_payload_error_notify ==
    Outcome("true",
            <<[to |-> sender_internal_addr, msg |-> ConnectionClosed]>>,
            <<>>)

\* read_exact failed (receiver.rs 129-135).
on_read_payload_error == Outcome("true", <<>>, <<>>)

\* A slip of on_decode_error: the failure ends the loop.
on_decode_error_stop == Outcome("false", <<>>, <<>>)

\* TransportMessage::decode failed: `?` returns RecvBadMessage (receiver.rs 138).
on_decode_error == Outcome("err", <<>>, <<>>)

\* A slip of onward_route_next_is_err: no message counts as a heartbeat.
onward_route_never_err(msg) == FALSE

\* msg.onward_route.next().is_err(): the route has no first hop (receiver.rs 141).
onward_route_next_is_err(msg) == Len(msg.onward_route) = 0

\* Heartbeat message (receiver.rs 141-144).
on_heartbeat == Outcome("true", <<>>, <<>>)

\* A slip of prepend_sender: the sender address is put last.
append_sender(msg) ==
    [msg EXCEPT !.return_route = @ \o <<sender_address>>]

\* msg.return_route.modify().prepend(sender_address) (receiver.rs 148-150).
prepend_sender(msg) ==
    [msg EXCEPT !.return_route = <<sender_address>> \o @]

\* SessionIdLocalInfo::new(id).to_local_info() as an entry of the local info.
SessionIdLocalInfo(id) == [kind |-> "SessionId", session_id |-> id]

\* A slip of local_info_of: the session is left out.
local_info_none(session, infoOk) == Some(<<>>)

\* The local info of a forwarded message (receiver.rs 155-158), None when
\* to_local_info returns an error and `?` leaves process with it.
local_info_of(session, infoOk) ==
    IF session = None THEN Some(<<>>)
    ELSE IF infoOk THEN Some(<<SessionIdLocalInfo(session[1])>>)
    ELSE None

\* LocalMessage::new(msg, local_info).
LocalMessage(msg, local_info) ==
    [transport_message |-> msg, local_info |-> local_info]

\* `to_local_info()?` failed (receiver.rs 156): the error is returned before
\* ctx.forward is reached.
on_local_info_error == Outcome("err", <<>>, <<>>)

\* A message with an onward route is forwarded (receiver.rs 146-163).
on_message(msg, session, infoOk, fwdOk) ==
    LET local_info == local_info_of(session, infoOk)
    IN  IF local_info = None
        THEN on_local_info_error
        ELSE Outcome(IF fwdOk THEN "true" ELSE "err",
                     <<>>,
                     <<LocalMessage(prepend_sender(msg), local_info[1])>>)

\* A call of process that runs to its return.
process(rd, session, infoOk, sendOk, fwdOk) ==
    IF ~rd.hdr THEN on_read_len_error(sendOk)
    ELSE IF ~rd.complete THEN on_read_payload_error
    ELSE IF rd.decoded = None THEN on_decode_error
    ELSE IF onward_route_next_is_err(rd.decoded[1]) THEN on_heartbeat
    ELSE on_message(rd.decoded[1], session, infoOk, fwdOk)

(***************************************************************************)
(* The processor relay that drives a Processor: initialize, then process   *)
(* until it asks to stop or a stop signal arrives, then shutdown.  The     *)
(* relay is not part of the sources at hand.  The design document has the  *)
(* loop go on after a frame that was dropped or failed (section 4.1, steps *)
(* 2 and 3, section 7) and end at the failed length prefix read, which is  *)
(* terminal and not retried (section 4.1, step 1, failure semantics): the  *)
(* call that gave ConnectionClosed to ctx.send is the last one, whether it *)
(* returned Ok(false) or the error of the send.                            *)
(***************************************************************************)
LoopContinues(out) ==
    \/ out.result = "true"
    \/ out.result = "err" /\ out.send = <<>>

(***************************************************************************)
(* Identities, authorities, credentials and attributes.                    *)
(***************************************************************************)
NodeIdentifier == "I_node"
OtherIdentifier == "I_other"
Authority1 == [addr |-> "/authority1", identifier |-> "I_authority1"]
Authority2 == [addr |-> "/authority2", identifier |-> "I_authority2"]
RogueIdentifier == "I_rogue"
Peers == {"I_peer_a", "I_peer_b"}

\* NodeManager.authorities: not set, or a list of authorities.
AuthorityConfigs ==
    {None, Some(<<>>), Some(<<Authority1>>), Some(<<Authority1, Authority2>>)}

Issuers == {Authority1.identifier, Authority2.identifier, RogueIdentifier}

ControlAttributes == ("component" :> "control") @@ ("project" :> "p1")
EdgeAttributes == ("component" :> "edge") @@ ("project" :> "p1")
UpperAttributes == ("component" :> "Control") @@ ("project" :> "p1")
NoComponentAttributes == ("project" :> "p1")

\* A credential: the attributes its issuer attests of its subject; signed is
\* whether the signature on it is the issuer's.
Credential(subject, issuer, attrs, signed) ==
    [subject |-> subject, issuer |-> issuer, attrs |-> attrs, signed |-> signed]

\* What an authority may answer a credential request of the node with.
IssuedCredentials ==
    {Credential(NodeIdentifier, iss, EdgeAttributes, TRUE) : iss \in Issuers}
    \cup {Credential(NodeIdentifier, Authority1.identifier, EdgeAttributes,
                     FALSE),
          Credential(OtherIdentifier, Authority1.identifier, EdgeAttributes,
                     TRUE)}

\* What a peer may present in a mutual exchange.
PresentedCredentials ==
    {Credential(sub, Authority1.identifier, at, TRUE) :
        sub \in Peers, at \in {ControlAttributes, EdgeAttributes}}
    \cup {Credential("I_peer_a", Authority1.identifier, at, TRUE) :
              at \in {UpperAttributes, NoComponentAttributes}}
    \cup {Credential("I_peer_a", RogueIdentifier, ControlAttributes, TRUE),
          Credential("I_peer_a", Authority1.identifier, ControlAttributes,
                     FALSE)}

Options(S) == {None} \cup {Some(x) : x \in S}

(***************************************************************************)
(* NodeManager::get_credential_impl, credentials.rs 23-89.  The call     *)
(* waits seven times: for the credential of the identity (line 30), for    *)
(* create_tcp_session (48), create_secure_channel_internal (65),           *)
(* RpcClient::new (76), client.credential (78), verify_self_credential     *)
(* (83) and set_credential (86).  env is what the outside answers at a     *)
(* wait: whether create_tcp_session found a session, the identifier the    *)
(* peer proved in the secure channel handshake (None: the handshake failed *)
(* or timed out), whether the client could be made, the credential the     *)
(* issuer returned (None: the request failed).                             *)
(***************************************************************************)
NoAnswer == [tcp_session |-> FALSE, peer |-> None, rpc |-> FALSE,
             issued |-> None]

\* The answers the outside can give to the call that waits at `at`.
AnswersAt(at) ==
    IF at = "create_tcp_session"
    THEN {[NoAnswer EXCEPT !.tcp_session = b] : b \in BOOLEAN}
    ELSE IF at = "create_secure_channel"
    THEN {[NoAnswer EXCEPT !.peer = p] : p \in Options(Issuers)}
    ELSE IF at = "rpc_client"
    THEN {[NoAnswer EXCEPT !.rpc = b] : b \in BOOLEAN}
    ELSE IF at = "request_credential"
    THEN {[NoAnswer EXCEPT !.issued = c] : c \in Options(IssuedCredentials)}
    ELSE {NoAnswer}

Step(op, target) == [op |-> op, target |-> target]

\* Authorities::public_identities.
public_identities(auths) == {auths[i].identifier : i \in 1..Len(auths)}

\* A slip of already_has_credential: the flag is read the wrong way round.
already_has_credential_inverted(cred, overwrite) == cred # None /\ overwrite

\* `identity.credential().await.is_some() && !overwrite` (credentials.rs 30).
already_has_credential(cred, overwrite) == cred # None /\ ~overwrite

\* A slip of allowed_identifiers: every known identifier is let in.
allowed_identifiers_any(authority) == Issuers

\* `vec![authority.identity.identifier().clone()]` (credentials.rs 45).
allowed_identifiers(authority) == {authority.identifier}

\* A secure channel under an allow-list: it exists iff the peer proved an
\* identifier of the list.
secure_channel_created(peer, allowed) == peer # None /\ peer[1] \in allowed

\* A slip of first_authority: the last configured authority is taken.
last_authority(auths) == IF Len(auths) = 0 THEN None ELSE Some(auths[Len(auths)])

\* `authorities.as_ref().first()` (credentials.rs 37-39).
first_authority(auths) == IF Len(auths) = 0 THEN None ELSE Some(auths[1])

\* The address of the channel `sc` that create_secure_channel_internal
\* returns (credentials.rs 57-66), None when it returns an error.
create_secure_channel_internal(peer, allowed) ==
    IF secure_channel_created(peer, allowed) THEN Some("sc") ELSE None

\* The error of a failed handshake: the peer is not of the allow-list
\* (an authentication error), or it proved nothing at all.
secure_channel_error(peer) ==
    IF peer = None THEN "secure channel" ELSE "authentication"

\* The arguments and the result of the one call of
\* create_secure_channel_internal (credentials.rs 57-66).
ChannelAttempt(route, allowed, peer, sc) ==
    [route |-> route, allowed |-> allowed, peer |-> peer, sc |-> sc]

\* Identity::verify_self_credential: the credential is about this identity and
\* carries the signature of one of the trusted issuers.
verify_self_credential(identifier, cred, trusted) ==
    /\ cred.subject = identifier
    /\ cred.issuer \in trusted
    /\ cred.signed

\* What a call leaves: its result, the steps it took towards the outside,
\* the credential it fetched, the argument of set_credential, and the
\* identity's credential after it.
\* channel is what happened at create_secure_channel_internal, None while the
\* call did not get there; at is the wait the call is at, "returned" once it
\* is over.
ImplResult(ok, error, steps, fetched, set, cred) ==
    [ok |-> ok, error |-> error, steps |-> steps, fetched |-> fetched,
     set |-> set, credential |-> cred, channel |-> None, at |-> "returned"]

\* No call of get_credential_impl was made.
NoRun == [ImplResult(FALSE, "", <<>>, None, None, None) EXCEPT !.at = "none"]

\* The call waits at `at`: the calls made so far, the credential fetched so
\* far, and the credential of the identity, which is as it was.
pending(at, steps, fetched, cred) ==
    [ImplResult(FALSE, "", steps, fetched, None, cred) EXCEPT !.at = at]

\* get_credential_impl is entered and waits for `identity.credential().await`
\* (credentials.rs 30); cred is the credential the identity holds.
get_credential_impl_entered(cred) == pending("credential", <<>>, None, cred)

\* A slip of abort: the credential is dropped before the new one is there.
abort_dropping_credential(error, steps, fetched, cred) ==
    ImplResult(FALSE, error, steps, fetched, None, None)

\* An early return, `return Err(..)` or `?` (credentials.rs 31, 35, 41, 52,
\* 65, 76, 78, 83): the identity keeps the credential it has.
abort(error, steps, fetched, cred) ==
    ImplResult(FALSE, error, steps, fetched, None, cred)

\* `identity.set_credential(credential.to_owned()).await; Ok(())`
\* (credentials.rs 86-88).
set_credential_and_return(steps, fetched) ==
    ImplResult(TRUE, "", steps, fetched, fetched, fetched)

\* A slip of no_tcp_session: the absent session is unwrapped, which panics.
no_tcp_session_unwrapped(steps, cred) ==
    ImplResult(FALSE, "panic", steps, None, None, cred)

\* `None => { error!("INVALID ROUTE"); return Err(..) }` of the match on
\* create_tcp_session (credentials.rs 47-54).
no_tcp_session(steps, cred) ==
    abort("invalid authority route", steps, None, cred)

\* A slip of self_credential_verified: the result of the verification is
\* not looked at.
self_credential_unverified(identifier, cred, auths) == TRUE

\* `identity.verify_self_credential(&credential,
\*  authorities.public_identities().iter())` (credentials.rs 81-83).
self_credential_verified(identifier, cred, auths) ==
    verify_self_credential(identifier, cred, public_identities(auths))

\* get_credential_impl from the wait run.at to its next wait or to its
\* return.  identifier is the identifier of the identity the call is made
\* for, run.credential the credential this identity holds.  The authorities
\* are read at lines 35 and 69; they are not written while the write guard of
\* the handler is held, so both reads give auths.
get_credential_impl(run, identifier, overwrite, auths, env) ==
    LET cred == run.credential
        went(r) == [r EXCEPT !.channel = run.channel]
        called(op, target) == Append(run.steps, Step(op, target))
    IN  IF run.at = "credential"
        THEN IF already_has_credential(cred, overwrite)
             THEN abort("credential already exists", <<>>, None, cred)
             ELSE IF auths = None
             THEN abort("authorities not set", <<Step("authorities", "")>>,
                        None, cred)
             ELSE IF first_authority(auths[1]) = None
             THEN abort("No known Authority", <<Step("authorities", "")>>,
                        None, cred)
             ELSE pending("create_tcp_session",
                          <<Step("authorities", ""),
                            Step("create_tcp_session",
                                 first_authority(auths[1])[1].addr)>>,
                          None, cred)
        ELSE LET authority == first_authority(auths[1])[1]
                 allowed == allowed_identifiers(authority)
                 sc == create_secure_channel_internal(env.peer, allowed)
                 attempt == ChannelAttempt(authority.addr, allowed, env.peer,
                                           sc)
                 attempted(r) == [r EXCEPT !.channel = Some(attempt)]
             IN  IF run.at = "create_tcp_session"
                 THEN IF ~env.tcp_session
                      THEN no_tcp_session(run.steps, cred)
                      ELSE pending("create_secure_channel",
                                   called("create_secure_channel",
                                          authority.addr),
                                   None, cred)
                 ELSE IF run.at = "create_secure_channel"
                 THEN IF sc = None
                      THEN attempted(abort(secure_channel_error(env.peer),
                                           run.steps, None, cred))
                      ELSE attempted(pending("rpc_client",
                                             called("rpc_client",
                                                    authority.addr),
                                             None, cred))
                 ELSE IF run.at = "rpc_client"
                 THEN IF ~env.rpc
                      THEN went(abort("rpc client", run.steps, None, cred))
                      ELSE went(pending("request_credential",
                                        called("request_credential",
                                               authority.addr),
                                        None, cred))
                 ELSE IF run.at = "request_credential"
                 THEN IF env.issued = None
                      THEN went(abort("credential request", run.steps, None,
                                      cred))
                      ELSE went(pending("verify_self_credential",
                                        called("verify_self_credential", ""),
                                        env.issued, cred))
                 ELSE IF run.at = "verify_self_credential"
                 THEN IF ~self_credential_verified(identifier, run.fetched[1],
                                                   auths[1])
                      THEN went(abort("credential verification", run.steps,
                                      run.fetched, cred))
                      ELSE went(pending("set_credential",
                                        called("set_credential", ""),
                                        run.fetched, cred))
                 ELSE went(set_credential_and_return(run.steps, run.fetched))

\* The names of the identities of cli_state.
IdentityNames == {"other"}

\* What a request can carry as identity_name.
RequestedNames == {None, Some("other"), Some("unknown")}

\* The identity a get_credential request is for, as far as the handler
\* gets without waiting (credentials.rs 102-112): the identity of cli_state
\* the request names, else the node's own; None when a `?` returns its error:
\* cli_state has no identity of that name, the node manager has no vault
\* (vault is whether it has) or no identity.
request_identity(identity_name, hasIdentity, vault) ==
    IF identity_name # None
    THEN IF identity_name[1] \in IdentityNames /\ vault
         THEN Some("other") ELSE None
    ELSE IF hasIdentity THEN Some("node") ELSE None

\* The waits of the handler for the identity (credentials.rs 104-112):
\* "identity" is `idt_state.get(ctx, vault).await` (104) of a named identity
\* or `async_try_clone().await` (112) of the node's, "default_vault" is
\* `vaults.default()?.get().await` (107) and "identity_default" is
\* `idt_state.get(ctx, default_vault).await` (108).  ok is whether the wait
\* returns Ok, dflt whether cli_state has a default vault.  The result is the
\* next wait, "loaded" when the identity is there, "failed" when a `?`
\* returns the error.
identity_load(at, named, ok, dflt) ==
    IF at = "identity"
    THEN IF ok THEN "loaded"
         ELSE IF named /\ dflt THEN "default_vault"
         ELSE "failed"
    ELSE IF at = "default_vault"
    THEN IF ok THEN "identity_default" ELSE "failed"
    ELSE IF ok THEN "loaded" ELSE "failed"

\* The identifier of an identity.
identifier_of(identity) ==
    IF identity = "node" THEN NodeIdentifier ELSE OtherIdentifier

\* A slip of get_credential_response: the result of get_credential_impl is
\* not looked at.
get_credential_response_unchecked(implOk, cred) ==
    IF cred # None THEN "ok" ELSE "internal_error"

\* The body of the answer: `Response::ok(req.id()).body(c)` carries the
\* credential the identity holds (credentials.rs 119-120), any other answer
\* carries none.
get_credential_body(implOk, cred) ==
    IF implOk /\ cred # None THEN cred ELSE None

\* The answer of the get_credential handler (credentials.rs 115-124).
get_credential_response(implOk, cred) ==
    IF ~implOk THEN "error"
    ELSE IF cred # None THEN "ok"
    ELSE "internal_error"

(***************************************************************************)
(* The credential exchange of Identity::present_credential and             *)
(* Identity::present_credential_mutual, and the attribute based access     *)
(* control, as the design document states them (sections 4.3 and 4.4).     *)
(***************************************************************************)
\* A slip of trusted_issuers: every issuer is trusted.
trusted_issuers_any(auths) == Issuers

\* `&node_manager.authorities()?.public_identities()` (credentials.rs 150).
trusted_issuers(auths) == public_identities(auths)

\* The credential a peer presented is its own and carries the signature of a
\* trusted issuer.
verify_presented_credential(remote, cred, trusted) ==
    /\ cred.subject = remote
    /\ cred.issuer \in trusted
    /\ cred.signed

\* `MultiAddr::from_str(&request.route)` and local_multiaddr_to_route
\* (credentials.rs 136-140): the request goes on only with a route that
\* parses and is local.
route_is_local(route) == route = "ok"

\* A call of Identity::present_credential or present_credential_mutual with
\* the trusted issuers and the attribute storage it is given.
Presentation(op, trusted, storage) ==
    [op |-> op, trusted |-> trusted, storage |-> storage]

\* A slip of presentation: the oneway flag is not looked at.
presentation_oneway_only(oneway, auths) ==
    Some(Presentation("present_credential", {}, "none"))

\* `if request.oneway { .. } else { .. }` (credentials.rs 144-155): the call
\* the handler makes, None when `node_manager.authorities()?` returns its
\* error before the mutual call.
presentation(oneway, auths) ==
    IF oneway
    THEN Some(Presentation("present_credential", {}, "none"))
    ELSE IF auths = None THEN None
    ELSE Some(Presentation("present_credential_mutual",
                           trusted_issuers(auths[1]), "attributes_storage"))

\* AttributeStore.put(identifier, attributes): the entry is replaced whole.
put_attributes(store, identifier, attrs) ==
    [store EXCEPT ![identifier] = Some(attrs)]

\* AbacAccessControl::create(storage, "component", "control")
\* (11-attribute-based-authentication-edge-plane.rs 106).
abac_attribute_name == "component"
\* A slip of abac_attribute_value: the node's own component is expected.
abac_attribute_value_edge == "edge"
abac_attribute_value == "control"

\* AbacGate.authorize: the identifier has an entry, the entry has the
\* attribute, and its value is the expected one.
abac_is_authorized(store, identifier, name, value) ==
    /\ store[identifier] # None
    /\ name \in DOMAIN store[identifier][1]
    /\ store[identifier][1][name] = value

(***************************************************************************)
(* The request handlers of NodeManagerWorker (credentials.rs 93-159).      *)
(***************************************************************************)
\* The handlers that may be at work at the same time.
Handlers == {"h1", "h2"}

IdleHandler ==
    [kind |-> "none", pc |-> "idle", overwrite |-> FALSE, oneway |-> FALSE,
     route |-> "ok", before |-> None, after |-> None, run |-> NoRun,
     exchange |-> "Idle", remote |-> "", reply |-> None,
     entryBefore |-> None, entryAfter |-> None, response |-> "none",
     calls |-> <<>>, presentation |-> "none", body |-> None,
     decoded |-> TRUE, identity_name |-> None, identity |-> "none",
     early |-> ""]

NoDecision ==
    [checked |-> FALSE, identifier |-> "", allowed |-> FALSE,
     entry |-> None, unchanged |-> TRUE]

LockFree == [writer |-> FALSE, readers |-> 0]

\* A slip of write_lock_free: the readers are not waited for.
write_lock_ignoring_readers(l) == ~l.writer

\* `self.node_manager.write().await` (credentials.rs 99) returns once no
\* other guard, read or write, is held.
write_lock_free(l) == ~l.writer /\ l.readers = 0

\* `self.node_manager.read().await` (credentials.rs 132) returns once no
\* write guard is held.
read_lock_free(l) == ~l.writer

EmptyStore == [p \in Peers |-> None]

\* The node manager before any request.
NodeAtRest ==
    /\ credential = None
    /\ named_credential = None
    /\ attributes_storage = EmptyStore
    /\ lock = LockFree
    /\ handlers = [h \in Handlers |-> IdleHandler]
    /\ requests = 0
    /\ abac = NoDecision

NoStep ==
    [rd |-> StreamFailed, result |-> "none", send |-> <<>>, sent |-> <<>>,
     forward |-> <<>>]

InitReceiver ==
    /\ rstate = "new"
    /\ loopExit = "none"
    /\ registry = {}
    /\ initialized = "none"
    /\ session_id \in {None} \cup {Some(s) : s \in SessionIds}
    /\ streamOpen = TRUE
    /\ awaiting = "none"
    /\ consumed = <<>>
    /\ infoFailed = {}
    /\ forwarded = <<>>
    /\ forwardResults = <<>>
    /\ notifications = <<>>
    /\ last = NoStep
    /\ authorities = None
    /\ node_identity = TRUE
    /\ NodeAtRest

\* A slip of initialize: the address is not added.
initialize_unregistered(reg, clusterOk) ==
    [ok |-> clusterOk, registry |-> reg]

\* Processor::initialize (receiver.rs 76-82): `ctx.set_cluster(..).await?`
\* returns its error before the address is added.
initialize(reg, clusterOk) ==
    [ok |-> clusterOk,
     registry |-> IF clusterOk THEN reg \cup {receiver_address} ELSE reg]

\* Processor::shutdown (receiver.rs 84-88).
shutdown(reg) == reg \ {receiver_address}

\* The relay calls initialize once, before the loop, and then process, which
\* waits for a length prefix.  What the relay does with a Receiver whose
\* initialize returned the error of set_cluster is said neither by the
\* sources at hand nor by the design document: it may enter the loop all the
\* same, with the address not in the registry, or go to shutdown without a
\* call of process; both are behaviours here.
Initialize ==
    /\ rstate = "new"
    /\ \E clusterOk \in BOOLEAN, runsAfterError \in BOOLEAN :
         LET r == initialize(registry, clusterOk)
             enters == r.ok \/ runsAfterError
         IN  /\ rstate' = IF enters THEN "running" ELSE "init_failed"
             /\ awaiting' = IF enters THEN "read_u16" ELSE "none"
             /\ registry' = r.registry
             /\ initialized' = IF r.ok THEN "ok" ELSE "err"
    /\ UNCHANGED <<loopExit, session_id, streamOpen, consumed, infoFailed,
                   forwarded, forwardResults, notifications, last>>
    /\ UNCHANGED nodeVars

\* What read_u16 can answer: TRUE a length prefix, FALSE an error.
NextHeaders ==
    {FALSE} \cup (IF streamOpen /\ Len(consumed) < MaxFrames THEN {TRUE} ELSE {})

\* The call of process returns: the relay calls it again or leaves the loop.
ProcessReturns(rd, out, delivered) ==
    /\ last' = [rd |-> rd, result |-> out.result, send |-> out.send,
                sent |-> delivered, forward |-> out.forward]
    /\ rstate' = IF LoopContinues(out) THEN "running" ELSE "ended"
    /\ loopExit' = IF LoopContinues(out) THEN "none" ELSE "self"
    /\ awaiting' = IF LoopContinues(out) THEN "read_u16" ELSE "none"

\* process: read_u16 answers (receiver.rs 104-117).  With a length prefix the
\* call goes on to wait in read_exact, with an error it calls ctx.send and
\* waits there.
ProcessReadLen ==
    /\ rstate = "running" /\ awaiting = "read_u16"
    /\ \E hdr \in NextHeaders :
         /\ awaiting' = IF hdr THEN "read_exact" ELSE "send"
         /\ streamOpen' = (streamOpen /\ hdr)
    /\ UNCHANGED <<rstate, loopExit, registry, initialized, session_id,
                   consumed, infoFailed, forwarded, forwardResults,
                   notifications, last>>
    /\ UNCHANGED nodeVars

\* process: read_exact answers (receiver.rs 129-161).  The call returns at
\* once on a failed read, a failed decode, a heartbeat or a failed
\* to_local_info; else it calls ctx.forward and waits there.
ProcessReadPayload ==
    /\ rstate = "running" /\ awaiting = "read_exact"
    /\ \E rd \in Frames, infoOk \in BOOLEAN :
         LET out == process(rd, session_id, infoOk, TRUE, TRUE)
         IN  /\ consumed' = Append(consumed, rd)
             /\ streamOpen' = rd.complete
             /\ infoFailed' =
                    IF IsRoutedFrame(rd) /\ out.forward = <<>>
                    THEN infoFailed \cup {Len(consumed) + 1}
                    ELSE infoFailed
             /\ forwarded' = forwarded \o out.forward
             /\ IF out.forward = <<>>
                THEN ProcessReturns(rd, out, <<>>)
                ELSE /\ awaiting' = "forward"
                     /\ UNCHANGED <<rstate, loopExit, last>>
    /\ UNCHANGED <<registry, initialized, session_id, forwardResults,
                   notifications>>
    /\ UNCHANGED nodeVars

\* process: ctx.send answers (receiver.rs 113-120).
ProcessSendReturns ==
    /\ rstate = "running" /\ awaiting = "send"
    /\ \E sendOk \in BOOLEAN :
         LET out == process(StreamFailed, session_id, TRUE, sendOk, TRUE)
             delivered == IF sendOk THEN out.send ELSE <<>>
         IN  /\ notifications' = notifications \o delivered
             /\ ProcessReturns(StreamFailed, out, delivered)
    /\ UNCHANGED <<registry, initialized, session_id, streamOpen, consumed,
                   infoFailed, forwarded, forwardResults>>
    /\ UNCHANGED nodeVars

\* process: ctx.forward answers (receiver.rs 161-163).
ProcessForwardReturns ==
    /\ rstate = "running" /\ awaiting = "forward"
    /\ \E fwdOk \in BOOLEAN :
         LET rd == consumed[Len(consumed)]
             out == process(rd, session_id, TRUE, TRUE, fwdOk)
         IN  /\ forwardResults' = Append(forwardResults, fwdOk)
             /\ ProcessReturns(rd, out, <<>>)
    /\ UNCHANGED <<registry, initialized, session_id, streamOpen, consumed,
                   infoFailed, forwarded, notifications>>
    /\ UNCHANGED nodeVars

\* One iteration of the relay's loop, a call of process (receiver.rs
\* 101-164), from one wait to the next.
Process ==
    \/ ProcessReadLen
    \/ ProcessReadPayload
    \/ ProcessSendReturns
    \/ ProcessForwardReturns

\* The processor is stopped from outside (TcpSendWorker stopping the pair,
\* or the node shutting down): the relay leaves its loop and drops the call
\* of process where it waits.
StopProcessor ==
    /\ rstate = "running"
    /\ rstate' = "stopped"
    /\ loopExit' = "signal"
    /\ UNCHANGED <<registry, initialized, session_id, streamOpen, awaiting,
                   consumed, infoFailed, forwarded, forwardResults,
                   notifications, last>>
    /\ UNCHANGED nodeVars

\* The relay calls shutdown once the processor is done.
Shutdown ==
    /\ rstate \in {"ended", "stopped", "init_failed"}
    /\ rstate' = "shutdown"
    /\ registry' = shutdown(registry)
    /\ UNCHANGED <<loopExit, initialized, session_id, streamOpen, awaiting,
                   consumed, infoFailed, forwarded, forwardResults,
                   notifications, last>>
    /\ UNCHANGED nodeVars

NextReceiver == Initialize \/ Process \/ StopProcessor \/ Shutdown

SpecReceiver == InitReceiver /\ [][NextReceiver]_vars

\* The relay keeps calling process while the loop runs and calls shutdown
\* once it is left; the stream and the router answer a call that waits.
\* Whether ctx.send delivers is the answer of the environment and is under
\* no fairness.
SpecReceiverFair ==
    /\ SpecReceiver
    /\ WF_vars(Process)
    /\ WF_vars(Shutdown)

(***************************************************************************)
(* The node manager worker: get_credential takes the write lock,           *)
(* present_credential the read lock (credentials.rs 99, 132).              *)
(***************************************************************************)
ReceiverAtRest ==
    /\ rstate = "new"
    /\ loopExit = "none"
    /\ registry = {}
    /\ initialized = "none"
    /\ session_id = None
    /\ streamOpen = TRUE
    /\ awaiting = "none"
    /\ consumed = <<>>
    /\ infoFailed = {}
    /\ forwarded = <<>>
    /\ forwardResults = <<>>
    /\ notifications = <<>>
    /\ last = NoStep

InitNode ==
    /\ ReceiverAtRest
    /\ authorities \in AuthorityConfigs
    /\ node_identity \in BOOLEAN
    /\ NodeAtRest

CanStart(h) ==
    /\ handlers[h].pc \in {"idle", "done", "dropped"}
    /\ requests < MaxRequests

\* The credential the identity of a request holds when the request gets it
\* (credentials.rs 102-113): the node's identity is a clone that shares the
\* credential of the node; an identity of cli_state is loaded from its stored
\* state, with the credential an earlier request set for it or with none.
LoadedCredentials(identity) ==
    IF identity = "node" THEN {credential} ELSE {named_credential, None}

\* The credential an identity holds.
CredentialOf(identity) ==
    IF identity = "node" THEN credential
    ELSE IF identity = "other" THEN named_credential
    ELSE None

\* The requests a get_credential handler can get (credentials.rs 100): one
\* that `dec.decode()` fails on, of which nothing is read, or a
\* GetCredentialRequest with its overwrite flag and identity_name.
GetCredentialRequests ==
    {[decoded |-> FALSE, overwrite |-> FALSE, identity_name |-> None]}
    \cup [decoded : {TRUE}, overwrite : BOOLEAN,
          identity_name : RequestedNames]

\* The requests a present_credential handler can get (credentials.rs 133):
\* one that `dec.decode()` fails on, or a PresentCredentialRequest with its
\* route and oneway flag.
PresentCredentialRequests ==
    {[decoded |-> FALSE, route |-> "", oneway |-> FALSE]}
    \cup [decoded : {TRUE}, route : {"ok", "unparsable", "not_local"},
          oneway : BOOLEAN]

\* The waits of a get_credential handler that holds the write guard.
GetWaits == {"identity", "default_vault", "identity_default", "impl", "ran"}

\* A get_credential handler returns an error before get_credential_impl
\* is called: `?` hands the error to the caller and the guard is dropped.
get_credential_stopped(handler, early, cred) ==
    [handler EXCEPT !.early = early, !.before = cred, !.after = cred,
                    !.response = "error", !.pc = "done"]

\* get_credential: `self.node_manager.write().await`, then the request is
\* decoded and its identity looked up, as far as the first wait for it
\* (credentials.rs 99-112); a request that does not decode or whose identity
\* is not there returns at once.
GetCredentialStart(h) ==
    /\ CanStart(h)
    /\ write_lock_free(lock)
    /\ requests' = requests + 1
    /\ \E req \in GetCredentialRequests, vault \in BOOLEAN :
         LET dec == req.decoded
             identity == request_identity(req.identity_name, node_identity,
                                          vault)
             request == [IdleHandler EXCEPT
                            !.kind = "get",
                            !.decoded = dec,
                            !.overwrite = req.overwrite,
                            !.identity_name = req.identity_name]
         IN  IF ~dec \/ identity = None
             THEN /\ handlers' = [handlers EXCEPT ![h] =
                         get_credential_stopped(request,
                             IF ~dec THEN "decode" ELSE "identity",
                             credential)]
                  /\ lock' = lock
             ELSE /\ handlers' = [handlers EXCEPT ![h] =
                         [request EXCEPT !.identity = identity[1],
                                         !.pc = "identity"]]
                  /\ lock' = [lock EXCEPT !.writer = TRUE]
    /\ UNCHANGED <<credential, named_credential, node_identity, authorities,
                   attributes_storage, abac>>
    /\ UNCHANGED recvVars

\* get_credential: a wait for the identity returns (credentials.rs 102-113);
\* with the identity there get_credential_impl is called and waits for the
\* credential of the identity (115-117, 30).
GetCredentialIdentity(h) ==
    /\ handlers[h].kind = "get"
    /\ handlers[h].pc \in {"identity", "default_vault", "identity_default"}
    /\ \E ok \in BOOLEAN, dflt \in BOOLEAN :
         LET next == identity_load(handlers[h].pc,
                                   handlers[h].identity_name # None, ok, dflt)
         IN  IF next = "failed"
             THEN /\ handlers' = [handlers EXCEPT ![h] =
                         get_credential_stopped(@, "identity", credential)]
                  /\ lock' = [lock EXCEPT !.writer = FALSE]
             ELSE IF next = "loaded"
             THEN /\ \E held \in LoadedCredentials(handlers[h].identity) :
                        handlers' = [handlers EXCEPT
                            ![h].before = held,
                            ![h].run = get_credential_impl_entered(held),
                            ![h].pc = "impl"]
                  /\ lock' = lock
             ELSE /\ handlers' = [handlers EXCEPT ![h].pc = next]
                  /\ lock' = lock
    /\ UNCHANGED <<credential, named_credential, node_identity, authorities,
                   attributes_storage, requests, abac>>
    /\ UNCHANGED recvVars

\* get_credential_impl goes from one of its waits to the next or returns
\* (credentials.rs 23-89).  When it returns an error, `.await?` at 115-117
\* returns it from the handler and the guard is dropped; when it returns Ok
\* the handler waits for `identity.credential().await` (119).
GetCredentialRun(h) ==
    /\ handlers[h].kind = "get" /\ handlers[h].pc = "impl"
    /\ \E env \in AnswersAt(handlers[h].run.at) :
         LET identity == handlers[h].identity
             r == get_credential_impl(handlers[h].run,
                                      identifier_of(identity),
                                      handlers[h].overwrite, authorities, env)
             returned == r.at = "returned"
             failed == returned /\ ~r.ok
         IN  /\ credential' = IF returned /\ identity = "node"
                              THEN r.credential ELSE credential
             /\ named_credential' = IF returned /\ identity = "other"
                                    THEN r.credential ELSE named_credential
             /\ handlers' = [handlers EXCEPT
                    ![h].run = r,
                    ![h].response =
                        IF failed
                        THEN get_credential_response(FALSE, r.credential)
                        ELSE "none",
                    ![h].body =
                        IF failed THEN get_credential_body(FALSE, r.credential)
                        ELSE None,
                    ![h].after = IF failed THEN r.credential ELSE None,
                    ![h].pc = IF ~returned THEN "impl"
                              ELSE IF r.ok THEN "ran" ELSE "done"]
             /\ lock' = IF failed THEN [lock EXCEPT !.writer = FALSE]
                        ELSE lock
    /\ UNCHANGED <<node_identity, authorities, attributes_storage, requests,
                   abac>>
    /\ UNCHANGED recvVars

\* get_credential: `identity.credential().await` returns and the response is
\* built, after which the write guard is dropped (credentials.rs 119-125).
GetCredentialRespond(h) ==
    /\ handlers[h].kind = "get" /\ handlers[h].pc = "ran"
    /\ LET held == CredentialOf(handlers[h].identity)
       IN  handlers' = [handlers EXCEPT
               ![h].response = get_credential_response(handlers[h].run.ok,
                                                       held),
               ![h].body = get_credential_body(handlers[h].run.ok, held),
               ![h].after = held,
               ![h].pc = "done"]
    /\ lock' = [lock EXCEPT !.writer = FALSE]
    /\ UNCHANGED <<credential, named_credential, node_identity, authorities,
                   attributes_storage, requests, abac>>
    /\ UNCHANGED recvVars

\* What is left of a handler that was dropped: the wait of
\* get_credential_impl it was dropped at, and the credential of its identity
\* when it began and when it was dropped.
dropped_handler(handler, cred) ==
    [IdleHandler EXCEPT
        !.kind = handler.kind, !.pc = "dropped",
        !.identity = handler.identity,
        !.before = handler.before, !.after = cred,
        !.run = [NoRun EXCEPT !.at = handler.run.at, !.credential = cred]]

\* The future of a get_credential handler is dropped at one of its waits:
\* nothing more of it runs, no response is built and the write guard is
\* dropped with it.
GetCredentialDropped(h) ==
    /\ handlers[h].kind = "get" /\ handlers[h].pc \in GetWaits
    /\ handlers' = [handlers EXCEPT ![h] =
           dropped_handler(@, IF @.pc = "impl" THEN @.run.credential
                              ELSE CredentialOf(@.identity))]
    /\ lock' = [lock EXCEPT !.writer = FALSE]
    /\ UNCHANGED <<credential, named_credential, node_identity, authorities,
                   attributes_storage, requests, abac>>
    /\ UNCHANGED recvVars

\* The `?` and the early return of present_credential that come before the
\* presentation (credentials.rs 133-142), in the order of the code: the
\* request does not decode, the route does not parse or is not local, the
\* node manager has no identity.  "" when the handler gets past them.
present_credential_early(decoded, route, hasIdentity) ==
    IF ~decoded THEN "decode"
    ELSE IF ~route_is_local(route) THEN "route"
    ELSE IF ~hasIdentity THEN "identity"
    ELSE ""

\* present_credential returns: Response::ok after a presentation that
\* returned Ok, the error of `?` else (credentials.rs 144-158); the read
\* guard is dropped with the return.
present_credential_returned(handler, ok, cred) ==
    [handler EXCEPT !.presentation = IF ok THEN "ok" ELSE "err",
                    !.response = IF ok THEN "ok" ELSE "error",
                    !.after = cred,
                    !.pc = "done"]

\* present_credential: `self.node_manager.read().await`, then the request is
\* decoded, the route parsed, the identity of the node taken and the
\* presentation called, which is the first wait of the handler
\* (credentials.rs 132-154); a `?` or the early return before the call
\* returns at once, and no presentation is made.
PresentCredentialStart(h) ==
    /\ CanStart(h)
    /\ read_lock_free(lock)
    /\ requests' = requests + 1
    /\ \E req \in PresentCredentialRequests :
         LET request == [IdleHandler EXCEPT
                            !.kind = "present",
                            !.decoded = req.decoded,
                            !.route = req.route,
                            !.oneway = req.oneway,
                            !.before = credential]
             early == present_credential_early(req.decoded, req.route,
                                               node_identity)
             call == presentation(request.oneway, authorities)
         IN  IF early # "" \/ call = None
             THEN /\ handlers' = [handlers EXCEPT ![h] =
                         [request EXCEPT !.early = early,
                                         !.response = "error",
                                         !.after = credential,
                                         !.pc = "done"]]
                  /\ lock' = lock
             ELSE /\ handlers' = [handlers EXCEPT ![h] =
                         [request EXCEPT !.calls = <<call[1]>>,
                                         !.pc = "called"]]
                  /\ lock' = [lock EXCEPT !.readers = @ + 1]
    /\ UNCHANGED <<credential, named_credential, node_identity, authorities,
                   attributes_storage, abac>>
    /\ UNCHANGED recvVars

\* The presentation goes on.  A one way presentation is over once the
\* credential is sent; a mutual one asks the peer at the end of the route
\* for its credential and waits for it.  An identity without credential has
\* nothing to present.
PresentCredentialSend(h) ==
    /\ handlers[h].kind = "present" /\ handlers[h].pc = "called"
    /\ \/ /\ handlers[h].oneway
          /\ \E sendOk \in BOOLEAN :
               handlers' = [handlers EXCEPT ![h] =
                   present_credential_returned(@, credential # None /\ sendOk,
                                               credential)]
          /\ lock' = [lock EXCEPT !.readers = @ - 1]
       \/ /\ ~handlers[h].oneway /\ credential = None
          /\ handlers' = [handlers EXCEPT ![h] =
                 present_credential_returned(@, FALSE, credential)]
          /\ lock' = [lock EXCEPT !.readers = @ - 1]
       \/ /\ ~handlers[h].oneway /\ credential # None
          /\ \E peer \in Peers :
               handlers' = [handlers EXCEPT
                   ![h].pc = "requested",
                   ![h].exchange = "CredentialRequested",
                   ![h].remote = peer]
          /\ lock' = lock
    /\ UNCHANGED <<credential, named_credential, node_identity, authorities,
                   attributes_storage, requests, abac>>
    /\ UNCHANGED recvVars

\* present_credential_mutual: the peer's answer arrives, or does not in time.
PresentCredentialReply(h) ==
    /\ handlers[h].kind = "present" /\ handlers[h].pc = "requested"
    /\ \E reply \in Options(PresentedCredentials) :
         IF reply = None
         THEN /\ handlers' = [handlers EXCEPT ![h] =
                     present_credential_returned(
                         [@ EXCEPT !.exchange = "Rejected"], FALSE,
                         credential)]
              /\ lock' = [lock EXCEPT !.readers = @ - 1]
         ELSE /\ handlers' = [handlers EXCEPT
                     ![h].reply = reply,
                     ![h].exchange = "Verifying",
                     ![h].pc = "verifying"]
              /\ lock' = lock
    /\ UNCHANGED <<credential, named_credential, node_identity, authorities,
                   attributes_storage, requests, abac>>
    /\ UNCHANGED recvVars

\* present_credential_mutual: the peer's credential is verified against the
\* trusted issuers and, when it holds, its attributes are stored; the call
\* returns and the handler with it.
PresentCredentialVerify(h) ==
    /\ handlers[h].kind = "present" /\ handlers[h].pc = "verifying"
    /\ LET remote == handlers[h].remote
           cred == handlers[h].reply[1]
           good == verify_presented_credential(
                       remote, cred, handlers[h].calls[1].trusted)
           store == IF good
                    THEN put_attributes(attributes_storage, remote, cred.attrs)
                    ELSE attributes_storage
       IN  /\ attributes_storage' = store
           /\ handlers' = [handlers EXCEPT ![h] =
                  present_credential_returned(
                      [@ EXCEPT !.exchange = IF good THEN "Committed"
                                             ELSE "Rejected",
                                !.entryBefore = attributes_storage[remote],
                                !.entryAfter = store[remote]],
                      good, credential)]
    /\ lock' = [lock EXCEPT !.readers = @ - 1]
    /\ UNCHANGED <<credential, named_credential, node_identity, authorities,
                   requests, abac>>
    /\ UNCHANGED recvVars

\* The waits of a present_credential handler that holds a read guard.
PresentWaits == {"called", "requested", "verifying"}

\* The future of a present_credential handler is dropped at one of its
\* waits: nothing more of it runs, no response is built and the read guard
\* is dropped with it.
PresentCredentialDropped(h) ==
    /\ handlers[h].kind = "present" /\ handlers[h].pc \in PresentWaits
    /\ handlers' = [handlers EXCEPT ![h] = dropped_handler(@, credential)]
    /\ lock' = [lock EXCEPT !.readers = @ - 1]
    /\ UNCHANGED <<credential, named_credential, node_identity, authorities,
                   attributes_storage, requests, abac>>
    /\ UNCHANGED recvVars

\* The access control of the inlet decides on a message of `identifier`
\* (11-attribute-based-authentication-edge-plane.rs 106, 163-165).
AbacAuthorize ==
    /\ requests < MaxRequests
    /\ requests' = requests + 1
    /\ UNCHANGED <<credential, named_credential, node_identity, authorities,
                   attributes_storage, lock, handlers>>
    /\ \E id \in Peers :
         abac' = [checked |-> TRUE, identifier |-> id,
                  allowed |-> abac_is_authorized(attributes_storage, id,
                                  abac_attribute_name, abac_attribute_value),
                  entry |-> attributes_storage[id],
                  unchanged |-> (attributes_storage' = attributes_storage)]
    /\ UNCHANGED recvVars

NextNode ==
    \/ \E h \in Handlers : GetCredentialStart(h)
    \/ \E h \in Handlers : GetCredentialIdentity(h)
    \/ \E h \in Handlers : GetCredentialRun(h)
    \/ \E h \in Handlers : GetCredentialDropped(h)
    \/ \E h \in Handlers : GetCredentialRespond(h)
    \/ \E h \in Handlers : PresentCredentialStart(h)
    \/ \E h \in Handlers : PresentCredentialSend(h)
    \/ \E h \in Handlers : PresentCredentialReply(h)
    \/ \E h \in Handlers : PresentCredentialVerify(h)
    \/ \E h \in Handlers : PresentCredentialDropped(h)
    \/ AbacAuthorize

SpecNode == InitNode /\ [][NextNode]_vars

(***************************************************************************)
(* Properties of the receiver.                                             *)
(***************************************************************************)
CloseNotification == [to |-> sender_internal_addr, msg |-> ConnectionClosed]

\* The transport messages handed to ctx.forward so far, in call order.
ForwardedTransports ==
    [i \in 1..Len(forwarded) |-> forwarded[i].transport_message]

\* What a peer's frames should come out as: one message per frame, the sender
\* address first in the return route, the rest as decoded.
ExpectedTransports(reads) ==
    [i \in 1..Len(reads) |->
        [onward_route |-> reads[i].decoded[1].onward_route,
         return_route |-> <<sender_address>> \o reads[i].decoded[1].return_route,
         payload |-> reads[i].decoded[1].payload]]

NotHeartbeatFrame(rd) == ~IsHeartbeatFrame(rd)

\* The elements of seq at the positions of keep, in order.
RECURSIVE Pick(_, _)
Pick(seq, keep) ==
    IF seq = <<>>
    THEN <<>>
    ELSE LET n == Len(seq)
             rest == Pick(SubSeq(seq, 1, n - 1), keep)
         IN  IF n \in keep THEN Append(rest, seq[n]) ELSE rest

\* The positions of the frames read that decoded to a message with an
\* onward route and for which the session local info was built.
ForwardablePositions ==
    {j \in 1..Len(consumed) : IsRoutedFrame(consumed[j])} \ infoFailed

\* C1 (as claimed): whenever process has returned anything but Ok(true), that
\* is Ok(false) or an error, a ConnectionClosed has been given to ctx.send
\* for the sender's internal address, in that call or before it.
C1_CloseNotifiedOnEveryExit ==
    last.result \in {"false", "err"} =>
        \/ CloseNotification \in {last.send[i] : i \in 1..Len(last.send)}
        \/ notifications # <<>>

\* C2 (as claimed): the messages handed to ctx.forward are exactly the
\* frames read so far that decoded to a message with an onward route, one
\* each, in wire order, with the sender address prepended to the return
\* route and nothing else changed.
C2_ForwardsEachRoutedFrameInOrder ==
    ForwardedTransports = ExpectedTransports(SelectSeq(consumed, IsRoutedFrame))

\* C2 (amended): the messages handed to ctx.forward are exactly the frames
\* read so far that decoded to a message with an onward route and for which
\* the session local info could be built, one each, in wire order, with the
\* sender address prepended to the return route and nothing else changed; a
\* frame with an onward route is lost only when to_local_info failed, which
\* takes a bound session.
C2_ForwardsEachFrameWithLocalInfoInOrder ==
    /\ ForwardedTransports =
           ExpectedTransports(Pick(consumed, ForwardablePositions))
    /\ \A j \in infoFailed :
           /\ j \in 1..Len(consumed)
           /\ IsRoutedFrame(consumed[j])
           /\ session_id # None

\* C2 witness: three frames with an onward route were read on a connection
\* with a session, the local info of the second could not be built, and the
\* first and the third were handed to ctx.forward in wire order.
C2_Witness ==
    /\ Len(consumed) = 3
    /\ \A j \in 1..3 : IsRoutedFrame(consumed[j])
    /\ infoFailed = {2}
    /\ Len(forwarded) = 2
    /\ Len(forwardResults) = 2
    /\ forwarded[1].transport_message.payload = "p2"
    /\ forwarded[2].transport_message.payload = "p1"
    /\ forwarded[2].transport_message.return_route = <<sender_address, "peer">>

\* C3 (as claimed): after a call of process whose length prefix read failed,
\* ConnectionClosed was delivered to the sender's internal address, nothing
\* was forwarded in the call, process returned Ok(false) and the loop is over.
C3_LenErrorNotifiesAndStops ==
    (last.result # "none" /\ ~last.rd.hdr) =>
        /\ last.sent = <<CloseNotification>>
        /\ last.forward = <<>>
        /\ last.result = "false"
        /\ loopExit = "self"

\* C3 (amended): after a call of process whose length prefix read failed, one
\* ConnectionClosed was given to ctx.send for the sender's internal address
\* and nothing was forwarded in the call; when the send succeeded process
\* returned Ok(false) and the loop is over, the read not retried; when the
\* send failed process returned the error and not Ok(false).
C3_LenErrorNotifiesThenStops ==
    (last.result # "none" /\ ~last.rd.hdr) =>
        /\ last.send = <<CloseNotification>>
        /\ last.forward = <<>>
        /\ (last.sent # <<>> =>
                /\ last.sent = <<CloseNotification>>
                /\ last.result = "false"
                /\ loopExit = "self")
        /\ (last.sent = <<>> => last.result = "err")

\* C3 witness: the stream failed after a frame had been forwarded, the
\* notification went through and the loop is over.
C3_Witness ==
    /\ last.result = "false"
    /\ ~last.rd.hdr
    /\ notifications = <<CloseNotification>>
    /\ Len(forwarded) = 1
    /\ loopExit = "self"

\* C4: a payload that was read in full and does not decode is dropped alone:
\* nothing is forwarded or notified for it, the stream stays open, the loop
\* is not left by the receiver, and every later frame with an onward route
\* is still forwarded.
C4_DecodeFailureDropsOneMessage ==
    /\ last.rd = BadFrame =>
           /\ last.forward = <<>>
           /\ last.send = <<>>
           /\ awaiting = "read_u16" => streamOpen
           /\ loopExit # "self"
           /\ rstate # "ended"
    /\ \A j \in ForwardablePositions :
           (\E i \in 1..(j - 1) : consumed[i] = BadFrame)
               => \E k \in 1..Len(forwarded) :
                    /\ k = Cardinality(ForwardablePositions \cap 1..j)
                    /\ forwarded[k].transport_message.payload
                           = consumed[j].decoded[1].payload

\* C4 witness: an undecodable frame was read and a frame read after it was
\* forwarded.
C4_Witness ==
    /\ Len(consumed) >= 2
    /\ consumed[1] = BadFrame
    /\ IsRoutedFrame(consumed[2])
    /\ Len(forwarded) = 1
    /\ rstate = "running"

\* C10: a heartbeat frame is consumed without any forward or notification
\* and without ending the loop, and the messages forwarded are those of the
\* frames read with the heartbeats left out.
C10_HeartbeatIsNoOp ==
    /\ (last.result # "none" /\ IsHeartbeatFrame(last.rd)) =>
           /\ last.forward = <<>>
           /\ last.send = <<>>
           /\ last.result = "true"
           /\ loopExit # "self"
           /\ awaiting = "read_u16" => streamOpen
    /\ ForwardedTransports =
           ExpectedTransports(
               SelectSeq(Pick(consumed, 1..Len(consumed) \ infoFailed),
                         IsRoutedFrame))
    /\ Len(forwarded) + Len(SelectSeq(consumed, IsHeartbeatFrame))
           <= Len(consumed)

\* C10 witness: a heartbeat arrived between two messages and both were
\* forwarded.
C10_Witness ==
    /\ Len(consumed) = 3
    /\ IsRoutedFrame(consumed[1])
    /\ IsHeartbeatFrame(consumed[2])
    /\ IsRoutedFrame(consumed[3])
    /\ Len(forwarded) = 2
    /\ notifications = <<>>

(***************************************************************************)
(* Properties of the node manager.                                         *)
(***************************************************************************)
\* The get_credential handlers whose call of get_credential_impl is over.
GetRan == {h \in Handlers : handlers[h].kind = "get"
                            /\ handlers[h].pc \in {"ran", "done"}
                            /\ handlers[h].run.at = "returned"}

\* The get_credential handlers whose call of get_credential_impl is at one
\* of its waits, or was when the handler was dropped.
GetRunning == {h \in Handlers : handlers[h].kind = "get"
                                /\ handlers[h].run.at \notin {"none", "returned"}}

\* The identity's credential when handler h was last seen to hold the lock:
\* now, while it holds it, and at its response once it has answered or at
\* its end once it was dropped.
CredentialAfter(h) ==
    IF handlers[h].pc \in {"done", "dropped"} THEN handlers[h].after
    ELSE IF handlers[h].pc = "impl" THEN handlers[h].run.credential
    ELSE CredentialOf(handlers[h].identity)

\* A credential of the identity signed by one of the configured authorities.
IssuedByKnownAuthority(identity, cred) ==
    /\ cred.subject = identifier_of(identity)
    /\ cred.signed
    /\ authorities # None
    /\ \E i \in 1..Len(authorities[1]) :
           authorities[1][i].identifier = cred.issuer

\* C5: a get_credential without overwrite on an identity that holds a
\* credential fails with the already-exists error without having read the
\* authorities or started any session, channel or request, and leaves the
\* credential as it was.
C5_AlreadyHasCredentialShortCircuit ==
    \A h \in GetRan :
        (~handlers[h].overwrite /\ handlers[h].before # None) =>
            /\ ~handlers[h].run.ok
            /\ handlers[h].run.error = "credential already exists"
            /\ handlers[h].run.steps = <<>>
            /\ handlers[h].run.fetched = None
            /\ CredentialAfter(h) = handlers[h].before
            /\ handlers[h].response \in {"none", "error"}

\* C5 witness: such a request has been answered.
C5_Witness ==
    \E h \in GetRan :
        /\ handlers[h].kind = "get" /\ handlers[h].pc = "done"
        /\ handlers[h].run.error = "credential already exists"
        /\ handlers[h].run.steps = <<>>
        /\ ~handlers[h].overwrite
        /\ handlers[h].before # None
        /\ handlers[h].response = "error"

\* The get_credential handlers that returned an error before the call of
\* get_credential_impl.
GetStoppedEarly == {h \in Handlers : handlers[h].kind = "get"
                                     /\ handlers[h].pc = "done"
                                     /\ handlers[h].early # ""}

\* C6: whenever get_credential_impl fails, at whatever step, the identity's
\* credential after the call is the one it had before it; a request that
\* fails before the call leaves the credential of the node as it was too,
\* and so does a call that is at one of its waits or was dropped at one.
C6_FailureLeavesCredential ==
    /\ \A h \in GetRan :
          ~handlers[h].run.ok =>
              /\ handlers[h].run.credential = handlers[h].before
              /\ CredentialAfter(h) = handlers[h].before
              /\ handlers[h].run.set = None
    /\ \A h \in GetStoppedEarly :
          /\ handlers[h].run = NoRun
          /\ CredentialAfter(h) = handlers[h].before
          /\ handlers[h].response \in {"none", "error"}
    /\ \A h \in GetRunning :
          /\ handlers[h].run.credential = handlers[h].before
          /\ CredentialAfter(h) = handlers[h].before
          /\ (handlers[h].pc = "impl" /\ handlers[h].identity = "node") =>
                 credential = handlers[h].before
          /\ handlers[h].response = "none"

\* C6 witness: an overwriting request failed at the verification of the
\* fetched credential while the identity held a credential.
C6_Witness ==
    \E h \in Handlers :
        /\ handlers[h].kind = "get" /\ handlers[h].pc = "done"
        /\ handlers[h].overwrite
        /\ handlers[h].before # None
        /\ handlers[h].run.error = "credential verification"
        /\ handlers[h].run.fetched # None
        /\ handlers[h].after = handlers[h].before

StepOps(steps) == [i \in 1..Len(steps) |-> steps[i].op]

\* C7: set_credential is called only with the credential just fetched, and
\* only after that credential has passed the verification against the known
\* authorities; after a successful call the identity holds it, whatever it
\* held before; while the call waits, for set_credential too, nothing is
\* set yet.
C7_SetOnlyVerifiedCredential ==
    /\ \A h \in GetRan :
          LET r == handlers[h].run
              ops == StepOps(r.steps)
          IN  /\ r.set # None =>
                     /\ r.set = r.fetched
                     /\ IssuedByKnownAuthority(handlers[h].identity, r.set[1])
                     /\ Len(ops) >= 2
                     /\ ops[Len(ops)] = "set_credential"
                     /\ ops[Len(ops) - 1] = "verify_self_credential"
              /\ r.ok => (r.set # None /\ CredentialAfter(h) = r.set)
              /\ r.set # None => r.ok
    /\ \A h \in GetRunning :
          LET r == handlers[h].run
          IN  /\ r.set = None /\ ~r.ok
              /\ (handlers[h].pc = "impl" /\ r.at = "set_credential") =>
                     /\ r.fetched # None
                     /\ IssuedByKnownAuthority(handlers[h].identity,
                                               r.fetched[1])

\* C7 witness: a successful call replaced a credential by another one.
C7_Witness ==
    \E h \in Handlers :
        /\ handlers[h].kind = "get" /\ handlers[h].pc = "done"
        /\ handlers[h].run.ok
        /\ handlers[h].before # None
        /\ handlers[h].after # handlers[h].before
        /\ handlers[h].response = "ok"

\* The peer's credential is its own and signed by a configured authority.
PresentedByKnownAuthority(remote, cred) ==
    /\ cred.subject = remote
    /\ cred.signed
    /\ authorities # None
    /\ \E i \in 1..Len(authorities[1]) :
           authorities[1][i].identifier = cred.issuer

Mutual == {h \in Handlers : handlers[h].kind = "present" /\ ~handlers[h].oneway}

\* C8: a mutual presentation either commits, in which case the peer's
\* credential verified against the trusted issuers, the peer's entry is the
\* credential's whole attribute set and the answer is OK, or it is rejected,
\* in which case the peer's entry is what it was and the answer is an error;
\* every entry of the store is the whole attribute set of a verified
\* credential of its identifier, and an exchange in any other state has
\* written nothing.
C8_MutualPresentationAllOrNothing ==
    /\ \A h \in Mutual :
        LET x == handlers[h] IN
        /\ x.exchange = "Committed" =>
               /\ x.reply # None
               /\ PresentedByKnownAuthority(x.remote, x.reply[1])
               /\ x.entryAfter = Some(x.reply[1].attrs)
               /\ x.response \in {"none", "ok"}
        /\ x.exchange = "Rejected" =>
               /\ x.entryAfter = x.entryBefore
               /\ x.response \in {"none", "error"}
        /\ x.exchange \notin {"Committed", "Rejected"} =>
               /\ x.entryBefore = None /\ x.entryAfter = None
               /\ x.response \in {"none", "error"}
        /\ x.response = "ok" => x.exchange = "Committed"
    /\ \A p \in Peers :
        \/ attributes_storage[p] = None
        \/ \E c \in PresentedCredentials :
               /\ PresentedByKnownAuthority(p, c)
               /\ attributes_storage[p] = Some(c.attrs)

\* C8 witness: an exchange was rejected at the verification of the peer's
\* credential while the store held an entry of that peer from an earlier,
\* committed exchange.
C8_Witness ==
    \E h \in Mutual :
        /\ handlers[h].pc = "done"
        /\ handlers[h].exchange = "Rejected"
        /\ handlers[h].reply # None
        /\ handlers[h].entryBefore # None
        /\ attributes_storage[handlers[h].remote] = handlers[h].entryBefore

LastFrameShort ==
    /\ consumed # <<>>
    /\ consumed[Len(consumed)] = ShortFrame

\* C11 (as stated): when the payload of a frame does not arrive in full,
\* nothing is forwarded for that frame and the Receiver eventually delivers
\* ConnectionClosed to its Sender and ends its loop.
C11_ShortFrameLeadsToNotifiedClose ==
    /\ [](LastFrameShort =>
            Len(forwarded) = Cardinality(ForwardablePositions))
    /\ LastFrameShort
           ~> (notifications = <<CloseNotification>> /\ loopExit = "self")

\* C11 (amended): when the payload of a frame does not arrive in full,
\* nothing is forwarded for that frame and the stream gives no further
\* frame.  A Receiver that is not stopped from outside first fails its next
\* length prefix read, gives ConnectionClosed to ctx.send and ends its loop
\* with that call: the Sender has the notification exactly when the send
\* succeeded (process returned Ok(false)), and has none when the send failed
\* (process returned the error).  A Receiver stopped from outside ends with
\* no notification.  Either way the Receiver comes to its shutdown.
C11_ShortFrameLeadsToClose ==
    /\ [](LastFrameShort =>
            /\ ~streamOpen
            /\ Len(forwarded) = Cardinality(ForwardablePositions)
            /\ (loopExit = "self" =>
                    /\ ~last.rd.hdr
                    /\ last.send = <<CloseNotification>>
                    /\ last.forward = <<>>
                    /\ notifications = last.sent
                    /\ (last.result = "false" <=>
                            notifications = <<CloseNotification>>)
                    /\ (last.result = "err" <=> notifications = <<>>))
            /\ (loopExit = "signal" => notifications = <<>>))
    /\ (LastFrameShort /\ rstate = "running")
           ~> \/ loopExit = "signal"
              \/ (loopExit = "self" /\ last.send = <<CloseNotification>>)
    /\ LastFrameShort ~> (rstate = "shutdown")

\* C11 witness: a frame was cut short after another had been forwarded, and
\* the receiver has notified the sender, ended its loop and shut down.
C11_Witness ==
    /\ LastFrameShort
    /\ Len(consumed) = 2
    /\ Len(forwarded) = 1
    /\ notifications = <<CloseNotification>>
    /\ loopExit = "self"
    /\ rstate = "shutdown"


\* Whether the steps of a call hold one of the given kind.
Reached(steps, op) == \E i \in 1..Len(steps) : steps[i].op = op

\* The handlers whose get_credential_impl went as far as the secure channel.
ChannelAttempted == {h \in GetRan : handlers[h].run.channel # None}

\* C12: a secure channel under an allow-list does not come to exist, and the
\* call fails with an authentication error, whenever the identifier the peer
\* proved is not of the list; get_credential passes the list made of the
\* configured authority's identifier alone, so a peer that proves any other
\* identifier, or none, gets no channel and is sent no credential request.
C12_OnlyAllowListedPeerGetsChannel ==
    \A h \in GetRan :
        LET r == handlers[h].run
        IN  /\ Reached(r.steps, "create_secure_channel") <=> r.channel # None
            /\ r.channel # None =>
                  LET a == r.channel[1]
                      known == authorities[1][1].identifier
                  IN  /\ a.allowed = {known}
                      /\ a.sc # None <=> a.peer = Some(known)
                      /\ a.sc = None =>
                            /\ ~r.ok
                            /\ a.peer # None => r.error = "authentication"
                            /\ ~Reached(r.steps, "request_credential")
                            /\ r.fetched = None
                            /\ r.set = None
            /\ Reached(r.steps, "request_credential") =>
                  /\ r.channel # None
                  /\ r.channel[1].sc # None

C12_Witness ==
    \E h \in ChannelAttempted :
        /\ handlers[h].pc = "done"
        /\ handlers[h].run.channel[1].peer = Some(RogueIdentifier)
        /\ handlers[h].run.channel[1].sc = None
        /\ handlers[h].run.error = "authentication"
        /\ handlers[h].response = "error"


\* C13: a failed read of the payload is soft: the call forwards nothing,
\* sends no close notification and returns true, so the loop is not left by
\* itself on it and the next call reads a length prefix again.
C13_PayloadReadFailureIsSoft ==
    /\ [](last.rd = ShortFrame =>
            /\ last.forward = <<>>
            /\ last.send = <<>>
            /\ last.sent = <<>>
            /\ last.result = "true"
            /\ loopExit # "self"
            /\ rstate # "ended")
    /\ [][(Len(consumed') > Len(consumed)
              /\ consumed'[Len(consumed')] = ShortFrame) =>
             /\ last'.rd = ShortFrame
             /\ forwarded' = forwarded
             /\ notifications' = notifications
             /\ rstate' = "running"
             /\ awaiting' = "read_u16"]_vars

C13_Witness ==
    /\ last.rd = ShortFrame
    /\ rstate = "running"
    /\ Len(forwarded) = 1
    /\ notifications = <<>>

\* The local info a message of this connection has to carry.
BoundLocalInfo ==
    IF session_id = None
    THEN <<>>
    ELSE <<[kind |-> "SessionId", session_id |-> session_id[1]]>>

\* C14: every forwarded message carries the session id the Receiver was
\* made with as its one local-info entry, and no local info when it was made
\* with none; the binding never changes, so no forwarded message carries the
\* session of another connection.
C14_ForwardedCarriesBoundSession ==
    /\ [](\A i \in 1..Len(forwarded) :
            /\ forwarded[i].local_info = BoundLocalInfo
            /\ Len(forwarded[i].local_info) <= 1
            /\ \A j \in 1..Len(forwarded[i].local_info) :
                   /\ session_id # None
                   /\ forwarded[i].local_info[j].session_id = session_id[1])
    /\ [][session_id' = session_id]_vars

C14_Witness ==
    /\ session_id = Some("session_b")
    /\ Len(forwarded) = 2
    /\ forwarded[2].local_info =
           <<[kind |-> "SessionId", session_id |-> "session_b"]>>


\* The relay has entered the Receiver's loop and has not called shutdown.
Alive == rstate \in {"running", "ended", "stopped"}

\* C15 (as stated): the Receiver's address is in the registry exactly while
\* the Receiver is alive, between its initialize and its shutdown, and after
\* shutdown the registry holds no entry.
C15_RegisteredExactlyWhileAlive ==
    /\ Alive <=> receiver_address \in registry
    /\ rstate = "shutdown" => registry = {}

\* C15 (amended): the Receiver's address is in the registry exactly while a
\* Receiver whose initialize succeeded is alive: initialize adds it before
\* the first call of process and shutdown removes it, however the loop was
\* left, so that after shutdown the registry holds no entry.  When
\* set_cluster fails initialize returns the error before the address is
\* added, and a Receiver that runs after that is never in the registry.
C15_RegisteredFromInitializeToShutdown ==
    /\ receiver_address \in registry <=> (initialized = "ok" /\ Alive)
    /\ registry \subseteq {receiver_address}
    /\ initialized = "none" <=> rstate = "new"
    /\ initialized = "ok" =>
            rstate \in {"running", "ended", "stopped", "shutdown"}
    /\ last # NoStep => rstate \in {"running", "ended", "stopped", "shutdown"}
    /\ loopExit # "none" => rstate \in {"ended", "stopped", "shutdown"}
    /\ rstate \in {"new", "init_failed", "shutdown"} => registry = {}

\* C15 witness: a Receiver whose initialize succeeded forwarded a message and
\* was stopped from outside; it is registered until its shutdown.
C15_Witness ==
    /\ rstate = "stopped"
    /\ initialized = "ok"
    /\ loopExit = "signal"
    /\ Len(forwarded) = 1
    /\ registry = {receiver_address}


\* The last step of a call that took one.
LastOp(steps) == steps[Len(steps)].op

\* C16: a get_credential that finds no TCP session to the authority returns
\* the ordinary error "invalid authority route" and does not panic: no
\* secure channel is tried, nothing is requested, the identity keeps its
\* credential and the handler answers with an error; with an empty list of
\* authorities it returns "No known Authority" before any connection is
\* tried.
C16_NoSessionIsAnOrdinaryError ==
    \A h \in GetRan :
        LET r == handlers[h].run
        IN  /\ r.error # "panic"
            /\ (r.steps # <<>> /\ LastOp(r.steps) = "create_tcp_session") <=>
                    r.error = "invalid authority route"
            /\ r.error = "invalid authority route" =>
                  /\ ~r.ok
                  /\ r.channel = None
                  /\ ~Reached(r.steps, "create_secure_channel")
                  /\ ~Reached(r.steps, "request_credential")
                  /\ r.credential = handlers[h].before
                  /\ CredentialAfter(h) = handlers[h].before
                  /\ handlers[h].pc = "done" => handlers[h].response = "error"
            /\ (authorities = Some(<<>>) /\ r.steps # <<>>) <=>
                    r.error = "No known Authority"
            /\ r.error = "No known Authority" =>
                  /\ ~r.ok
                  /\ r.steps = <<Step("authorities", "")>>
                  /\ r.channel = None
                  /\ r.credential = handlers[h].before

C16_Witness ==
    \E h \in GetRan :
        /\ handlers[h].pc = "done"
        /\ handlers[h].run.error = "invalid authority route"
        /\ handlers[h].before # None
        /\ handlers[h].overwrite
        /\ handlers[h].after = handlers[h].before
        /\ handlers[h].response = "error"


\* The present_credential requests that have been answered.
PresentDone == {h \in Handlers : handlers[h].kind = "present"
                                 /\ handlers[h].pc = "done"}

\* The identifiers of the node's known authorities.
KnownIssuers ==
    IF authorities = None
    THEN {}
    ELSE {authorities[1][i].identifier : i \in 1..Len(authorities[1])}

OneWayCall == [op |-> "present_credential", trusted |-> {}, storage |-> "none"]

MutualCall ==
    [op |-> "present_credential_mutual", trusted |-> KnownIssuers,
     storage |-> "attributes_storage"]

\* C17 as stated: every request with a route that parses and is local makes
\* exactly one presentation, one way or mutual as the flag says; a request
\* with another route makes none; the answer is OK only after a presentation
\* that succeeded.
C17_ExactlyOnePresentation ==
    \A h \in PresentDone :
        /\ handlers[h].route = "ok" =>
              handlers[h].calls =
                  IF handlers[h].oneway THEN <<OneWayCall>> ELSE <<MutualCall>>
        /\ handlers[h].route # "ok" => handlers[h].calls = <<>>
        /\ handlers[h].response = "ok" => handlers[h].presentation = "ok"

\* C17, amended: a request makes at most one presentation: the one way call
\* when the flag is set, else the mutual call with the identifiers of the
\* node's authorities as trusted issuers and the node's attribute storage;
\* it makes none when the request does not decode, when the route does not
\* parse or is not local, when the node manager has no identity, and none in
\* mutual mode when the node's authorities are not set; the answer is OK
\* exactly when one presentation was made and succeeded.
C17_AtMostOnePresentation ==
    \A h \in PresentDone :
        LET mutualUnset == ~handlers[h].oneway /\ authorities = None
            stopped == \/ ~handlers[h].decoded
                       \/ handlers[h].route # "ok"
                       \/ ~node_identity
                       \/ mutualUnset
        IN  /\ Len(handlers[h].calls) <= 1
            /\ ~stopped =>
                  handlers[h].calls =
                      IF handlers[h].oneway THEN <<OneWayCall>>
                      ELSE <<MutualCall>>
            /\ stopped =>
                  /\ handlers[h].calls = <<>>
                  /\ handlers[h].exchange = "Idle"
                  /\ handlers[h].response = "error"
            /\ handlers[h].response = "ok" <=>
                  (Len(handlers[h].calls) = 1 /\ handlers[h].presentation = "ok")
            /\ handlers[h].response \in {"ok", "error"}

C17_Witness ==
    \E h \in PresentDone :
        /\ handlers[h].route = "ok"
        /\ ~handlers[h].oneway
        /\ handlers[h].calls = <<MutualCall>>
        /\ MutualCall.trusted = {Authority1.identifier, Authority2.identifier}
        /\ handlers[h].exchange = "Committed"
        /\ handlers[h].response = "ok"


\* The close notification has been sent to the sender.
CloseSent == notifications # <<>>

\* C18: the Receiver sends the close notification at most once, as the last
\* thing its loop does: once it is sent the loop has ended by itself, and no
\* later step forwards a message or sends a notification again.
C18_CloseSentOnceAndLast ==
    /\ [](/\ Len(notifications) <= 1
          /\ CloseSent =>
                /\ notifications = <<CloseNotification>>
                /\ last.sent = notifications
                /\ last.forward = <<>>
                /\ loopExit = "self"
                /\ rstate \in {"ended", "shutdown"})
    /\ [][CloseSent => /\ forwarded' = forwarded
                       /\ notifications' = notifications
                       /\ last' = last]_vars

C18_Witness ==
    /\ CloseSent
    /\ Len(forwarded) = 2
    /\ Len(consumed) = 3
    /\ rstate = "shutdown"


\* The get_credential handlers between taking the write lock and answering.
GetInProgress ==
    {h \in Handlers : handlers[h].kind = "get"
                      /\ handlers[h].pc \in GetWaits}

\* The present_credential handlers between taking the read lock and
\* answering.
PresentInProgress ==
    {h \in Handlers : handlers[h].kind = "present"
                      /\ handlers[h].pc \in PresentWaits}

\* C19: get_credential holds the write lock of the node manager from its
\* start to its answer and present_credential the read lock: at most one
\* get_credential is in progress, none while a present_credential is, and
\* the credential a present_credential started with is not replaced under
\* it; present_credential handlers may overlap each other.
C19_GetCredentialIsExclusive ==
    /\ Cardinality(GetInProgress) <= 1
    /\ GetInProgress # {} => PresentInProgress = {}
    /\ lock.writer <=> GetInProgress # {}
    /\ lock.readers = Cardinality(PresentInProgress)
    /\ \A h \in PresentInProgress : credential = handlers[h].before

C19_Witness ==
    /\ PresentInProgress = Handlers
    /\ lock.readers = 2
    /\ \E h \in Handlers : handlers[h].pc = "verifying"
    /\ credential # None


\* The calls of get_credential_impl made while several authorities are
\* configured.
RanWithSeveralAuthorities ==
    {h \in GetRan : authorities # None /\ Len(authorities[1]) > 1}

\* C20: with several authorities configured get_credential goes to the first
\* one only: every connection, the secure channel and the credential request
\* have the first authority's address as target and the allow-list holds the
\* first authority's identifier alone; the credential that came back is
\* taken exactly when it is the one of the identity of the request and
\* signed by any one of the configured authorities.
C20_OnlyFirstAuthorityIsAsked ==
    \A h \in RanWithSeveralAuthorities :
        LET r == handlers[h].run
            first == authorities[1][1]
        IN  /\ \A i \in 1..Len(r.steps) :
                   r.steps[i].target \in {"", first.addr}
            /\ r.channel # None =>
                  /\ r.channel[1].route = first.addr
                  /\ r.channel[1].allowed = {first.identifier}
                  /\ r.channel[1].sc # None =>
                        r.channel[1].peer = Some(first.identifier)
            /\ Reached(r.steps, "verify_self_credential") =>
                  /\ r.fetched # None
                  /\ r.ok <=> /\ r.fetched[1].subject =
                                     identifier_of(handlers[h].identity)
                              /\ r.fetched[1].signed
                              /\ r.fetched[1].issuer \in KnownIssuers
            /\ r.ok => r.credential = r.fetched

C20_Witness ==
    \E h \in RanWithSeveralAuthorities :
        /\ authorities = Some(<<Authority1, Authority2>>)
        /\ handlers[h].pc = "done"
        /\ handlers[h].run.ok
        /\ handlers[h].run.channel[1].peer = Some(Authority1.identifier)
        /\ handlers[h].run.credential # None
        /\ handlers[h].run.credential[1].issuer = Authority2.identifier
        /\ handlers[h].response = "ok"


\* The get_credential requests that have been answered.
GetDone == {h \in Handlers : handlers[h].kind = "get"
                             /\ handlers[h].pc = "done"}

\* C21: when get_credential_impl succeeded the identity holds a credential
\* and the handler answers OK with that credential as body; the answer
\* "error getting credential" never follows a successful get_credential_impl,
\* and a failed get_credential_impl is never answered with OK, whatever
\* credential the identity holds.
C21_OkExactlyAfterSuccessfulImpl ==
    \A h \in GetDone :
        LET r == handlers[h].run
        IN  /\ r.ok =>
                  /\ handlers[h].after # None
                  /\ handlers[h].after = r.set
                  /\ handlers[h].response = "ok"
                  /\ handlers[h].body = handlers[h].after
            /\ handlers[h].response # "internal_error"
            /\ ~r.ok =>
                  /\ handlers[h].response = "error"
                  /\ handlers[h].body = None
            /\ handlers[h].response = "ok" <=> r.ok

C21_Witness ==
    \E h, g \in GetDone :
        /\ handlers[h].run.ok
        /\ handlers[h].overwrite
        /\ handlers[h].before # None
        /\ handlers[h].body # handlers[h].before
        /\ handlers[h].response = "ok"
        /\ ~handlers[g].run.ok
        /\ handlers[g].before # None
        /\ handlers[g].response = "error"

====
